---- MODULE Spec2Model ----
(***************************************************************************)
(* Model of streamlit_app.py: the name highlighter                         *)
(* (highlight_speaker_name) and the annotation page's script run (main)    *)
(* with its session state and its feedback file.                           *)
(*                                                                         *)
(* Strings are sequences of one-character strings.  Offsets are Python's   *)
(* 0-based offsets: text[s:e] is SubSeq(text, s + 1, e).                   *)
(***************************************************************************)
EXTENDS Integers, Sequences, FiniteSets, TLC

(***************************************************************************)
(* Bounds of the model.                                                    *)
(***************************************************************************)
MaxTextLen == 3
MaxNameLen == 2

(***************************************************************************)
(* Characters.  \w is matched by the letters; the blank is whitespace (it  *)
(* separates name parts and words).                                        *)
(***************************************************************************)
WordChars == {"a", "n", "N"}
Blank == " "
Alphabet == WordChars \cup {Blank}

\* Python's None, a value that is no string over the alphabet.
None == <<"None">>

RECURSIVE StringsUpTo(_)
StringsUpTo(n) ==
  IF n = 0 THEN {<<>>}
  ELSE LET shorter == StringsUpTo(n - 1)
       IN shorter \cup {Append(s, c) : s \in {x \in shorter : Len(x) = n - 1}, c \in Alphabet}

Texts == StringsUpTo(MaxTextLen) \cup {None}
\* Names of two parts, with a stopword among the parts and with parts that
\* differ in case from the Words they are met as.
TwoPartNames ==
  { <<"a", " ", "n">>, <<"N", " ", "a">>, <<"n", " ", "N">>, <<"a", " ", "a">> }

Names == StringsUpTo(MaxNameLen) \cup TwoPartNames \cup {None}
Thresholds == {0, 80, 100, 101}

STOPWORDS ==
  { <<"t","h","e">>, <<"a">>, <<"a","n">>, <<"a","n","d">>, <<"o","r">>,
    <<"b","u","t">>, <<"i","n">>, <<"o","n">>, <<"a","t">>, <<"t","o">>,
    <<"f","o","r">>, <<"o","f">>, <<"w","i","t","h">>, <<"b","y">>,
    <<"f","r","o","m">>, <<"a","s">>, <<"i","s">>, <<"w","a","s">>,
    <<"a","r","e">>, <<"w","e","r","e">>, <<"b","e","e","n">>, <<"b","e">>,
    <<"h","a","v","e">>, <<"h","a","s">>, <<"h","a","d">>, <<"d","o">>,
    <<"d","o","e","s">>, <<"d","i","d">>, <<"w","i","l","l">>,
    <<"w","o","u","l","d">>, <<"s","h","o","u","l","d">>,
    <<"c","o","u","l","d">>, <<"m","a","y">>, <<"m","i","g","h","t">>,
    <<"m","u","s","t">>, <<"c","a","n">>, <<"t","h","i","s">>,
    <<"t","h","a","t">>, <<"t","h","e","s","e">>, <<"t","h","o","s","e">>,
    <<"i">>, <<"y","o","u">>, <<"h","e">>, <<"s","h","e">>, <<"i","t">>,
    <<"w","e">>, <<"t","h","e","y">>, <<"c","l","e","a","r">>,
    <<"n","o","n">> }

\* The two strings that highlight_speaker_name inserts, each taken as one
\* unit of the output.
MarkOpen == "<mark>"
MarkClose == "</mark>"

(***************************************************************************)
(* str.lower, str.split, re.finditer(r'\b\w+\b'), fuzz.ratio               *)
(***************************************************************************)
lower_char(c) == IF c = "A" THEN "a" ELSE IF c = "N" THEN "n" ELSE c

lower(s) == [i \in 1..Len(s) |-> lower_char(s[i])]

IsWordChar(c) == c \in WordChars

\* str.split(): the maximal runs of non-whitespace characters, in order.
RECURSIVE split_from(_, _, _)
split_from(s, i, cur) ==
  IF i > Len(s) THEN (IF cur = <<>> THEN <<>> ELSE <<cur>>)
  ELSE IF s[i] = Blank
       THEN (IF cur = <<>> THEN <<>> ELSE <<cur>>) \o split_from(s, i + 1, <<>>)
       ELSE split_from(s, i + 1, Append(cur, s[i]))

split(s) == split_from(s, 1, <<>>)

\* \b at 0-based offset p of s: exactly one side of p is a word character.
WordBoundary(s, p) ==
  LET before == p >= 1 /\ IsWordChar(s[p])
      after == p < Len(s) /\ IsWordChar(s[p + 1])
  IN before # after

\* greedy \w+ from offset p: the offset just after the run of word characters.
RECURSIVE RunEnd(_, _)
RunEnd(s, p) == IF p < Len(s) /\ IsWordChar(s[p + 1]) THEN RunEnd(s, p + 1) ELSE p

\* re.finditer(r'\b\w+\b', s) scanning from offset p: the (start, end) pairs
\* of the matches, left to right; after a match the scan resumes at its end.
RECURSIVE finditer_from(_, _)
finditer_from(s, p) ==
  IF p >= Len(s) THEN <<>>
  ELSE IF WordBoundary(s, p) /\ IsWordChar(s[p + 1]) /\ WordBoundary(s, RunEnd(s, p))
       THEN <<(<<p, RunEnd(s, p)>>)>> \o finditer_from(s, RunEnd(s, p))
       ELSE finditer_from(s, p + 1)

finditer(s) == finditer_from(s, 0)

\* Length of a longest common subsequence of a[i..] and b[j..].
RECURSIVE LCSFrom(_, _, _, _)
LCSFrom(a, b, i, j) ==
  IF i > Len(a) \/ j > Len(b) THEN 0
  ELSE IF a[i] = b[j] THEN 1 + LCSFrom(a, b, i + 1, j + 1)
  ELSE LET x == LCSFrom(a, b, i + 1, j)
           y == LCSFrom(a, b, i, j + 1)
       IN IF x >= y THEN x ELSE y

LCS(a, b) == LCSFrom(a, b, 1, 1)

\* Mutant: the comparison of score and threshold turned round.
ScoreReaches_turned(a, b, t) ==
  IF Len(a) + Len(b) = 0 THEN 100 <= t
  ELSE 200 * LCS(a, b) <= t * (Len(a) + Len(b))

\* fuzz.ratio(a, b) is the normalised Indel similarity
\*   100 * (1 - (|a| + |b| - 2 LCS) / (|a| + |b|)),   100 for two empty strings.
\* The score is a fraction; score >= t is decided exactly, without division
\* (the library computes it in floating point, which agrees with the exact
\* comparison for the lengths and thresholds used here).
ScoreReaches(a, b, t) ==
  IF Len(a) + Len(b) = 0 THEN 100 >= t
  ELSE 200 * LCS(a, b) >= t * (Len(a) + Len(b))

(***************************************************************************)
(* State.                                                                  *)
(*   text, speaker_name, threshold: the arguments of the last call of      *)
(*     highlight_speaker_name (threshold starts at the default, 80);       *)
(*   positions: its local list of spans when it returns;                   *)
(*   result: the value it returned;                                        *)
(*   called: TRUE once it has been called.                                 *)
(***************************************************************************)
VARIABLES text, speaker_name, threshold, positions, result, called

hl_vars == <<text, speaker_name, threshold, positions, result, called>>

(***************************************************************************)
(* State of the page.                                                      *)
(*   num_rows: len(df_filtered), the same in every run (load_data is       *)
(*     cached);                                                            *)
(*   current_index, nav_prev_clicked, nav_next_clicked, upload_processed:  *)
(*     st.session_state;                                                   *)
(*   uploaded_file: the file held by the uploader widget;                  *)
(*   feedback_file: the content of feedback_data.json;                     *)
(*   rerun_pending: st.rerun() was called and the run it asks for has not  *)
(*     started;                                                            *)
(*   exception: the exception that ended the last run, if any;             *)
(*   last_event: the widget event the last run was started with;           *)
(*   events: the number of user events so far.                             *)
(***************************************************************************)
VARIABLES num_rows, current_index, nav_prev_clicked, nav_next_clicked,
          upload_processed, uploaded_file, feedback_file, rerun_pending,
          exception, last_event, events

app_vars == <<num_rows, current_index, nav_prev_clicked, nav_next_clicked,
              upload_processed, uploaded_file, feedback_file, rerun_pending,
              exception, last_event, events>>

vars == <<hl_vars, app_vars>>

(***************************************************************************)
(* highlight_speaker_name                                                  *)
(***************************************************************************)
\* Mutant: the name parts left out of the names to check.
names_to_check_full_only(name) == <<name>>

\* names_to_check = [speaker_name] + name_parts
names_to_check(name) == <<name>> \o split(name)

\* Mutant: the break taken after the first name, whatever its score.
name_loop_first_only(word, names, t, i) ==
  i <= Len(names) /\ ScoreReaches(lower(word), lower(names[i]), t)

\* for name in names_to_check: ... if score >= threshold: append; break
\* TRUE iff the loop, started at index i, appends the word's span.
RECURSIVE name_loop(_, _, _, _)
name_loop(word, names, t, i) ==
  IF i > Len(names) THEN FALSE
  ELSE IF ScoreReaches(lower(word), lower(names[i]), t) THEN TRUE
  ELSE name_loop(word, names, t, i + 1)

\* Mutant: the stopword test on the Word as written, not in lowercase.
RECURSIVE match_loop_cased(_, _, _, _, _)
match_loop_cased(txt, name, t, ms, i) ==
  IF i > Len(ms) THEN <<>>
  ELSE LET word == SubSeq(txt, ms[i][1] + 1, ms[i][2])
           hit == /\ word \notin STOPWORDS
                  /\ name_loop(word, names_to_check(name), t, 1)
       IN (IF hit THEN <<ms[i]>> ELSE <<>>) \o match_loop_cased(txt, name, t, ms, i + 1)

\* Mutant: no stopword test.
RECURSIVE match_loop_unfiltered(_, _, _, _, _)
match_loop_unfiltered(txt, name, t, ms, i) ==
  IF i > Len(ms) THEN <<>>
  ELSE LET word == SubSeq(txt, ms[i][1] + 1, ms[i][2])
           hit == name_loop(word, names_to_check(name), t, 1)
       IN (IF hit THEN <<ms[i]>> ELSE <<>>) \o match_loop_unfiltered(txt, name, t, ms, i + 1)

\* the loop over re.finditer: the list positions as it is after the loop,
\* for the matches ms[i..].
RECURSIVE match_loop(_, _, _, _, _)
match_loop(txt, name, t, ms, i) ==
  IF i > Len(ms) THEN <<>>
  ELSE LET word == SubSeq(txt, ms[i][1] + 1, ms[i][2])
           hit == /\ lower(word) \notin STOPWORDS
                  /\ name_loop(word, names_to_check(name), t, 1)
       IN (IF hit THEN <<ms[i]>> ELSE <<>>) \o match_loop(txt, name, t, ms, i + 1)

\* Python's order of 2-tuples of integers.
tuple_less(p, q) == p[1] < q[1] \/ (p[1] = q[1] /\ p[2] < q[2])

\* sorted(S) for a set S of tuples.
RECURSIVE sorted(_)
sorted(S) ==
  IF S = {} THEN <<>>
  ELSE LET least == CHOOSE p \in S : \A q \in S \ {p} : tuple_less(p, q)
       IN <<least>> \o sorted(S \ {least})

\* Mutant: sorted(set(positions), reverse=True)
sorted_set_reversed(ps) ==
  LET up == sorted({ps[i] : i \in 1..Len(ps)})
  IN [i \in 1..Len(up) |-> up[Len(up) + 1 - i]]

\* sorted(set(positions))
sorted_set(ps) == sorted({ps[i] : i \in 1..Len(ps)})

\* text[a:b], empty when a >= b, as a Python slice is.
slice(txt, a, b) == IF a >= b THEN <<>> ELSE SubSeq(txt, a + 1, b)

\* Mutant: the cursor last_end never advanced.
RECURSIVE build_loop_stale_cursor(_, _, _, _)
build_loop_stale_cursor(txt, ps, i, last_end) ==
  IF i > Len(ps) THEN slice(txt, last_end, Len(txt))
  ELSE slice(txt, last_end, ps[i][1])
         \o <<MarkOpen>> \o slice(txt, ps[i][1], ps[i][2]) \o <<MarkClose>>
         \o build_loop_stale_cursor(txt, ps, i + 1, last_end)

\* the loop that builds result, from span i on, with the cursor last_end,
\* and the tail appended after it.
RECURSIVE build_loop(_, _, _, _)
build_loop(txt, ps, i, last_end) ==
  IF i > Len(ps) THEN slice(txt, last_end, Len(txt))
  ELSE slice(txt, last_end, ps[i][1])
         \o <<MarkOpen>> \o slice(txt, ps[i][1], ps[i][2]) \o <<MarkClose>>
         \o build_loop(txt, ps, i + 1, ps[i][2])

\* not x, for a string or None
falsy(x) == x = None \/ x = <<>>

\* Mutant: the guard tests the text alone.
highlight_call_text_guard(txt, name, t) ==
  IF falsy(txt) THEN [positions |-> <<>>, result |-> txt]
  ELSE LET found == match_loop(txt, name, t, finditer(txt), 1)
       IN IF found = <<>> THEN [positions |-> found, result |-> txt]
          ELSE LET ps == sorted_set(found)
               IN [positions |-> ps, result |-> build_loop(txt, ps, 1, 0)]

\* One call: the list positions as it is at the return, and the value
\* returned.
highlight_call(txt, name, t) ==
  IF falsy(txt) \/ falsy(name) THEN [positions |-> <<>>, result |-> txt]
  ELSE LET found == match_loop(txt, name, t, finditer(txt), 1)
       IN IF found = <<>> THEN [positions |-> found, result |-> txt]
          ELSE LET ps == sorted_set(found)
               IN [positions |-> ps, result |-> build_loop(txt, ps, 1, 0)]

highlight_speaker_name(txt, name, t) == highlight_call(txt, name, t).result

(***************************************************************************)
(* The feedback file and the functions that read and write it.  The file   *)
(* is a mapping from row keys to mappings from field names to values; a    *)
(* row key "row_<i>" is taken as i, the booleans as "True" and "False".    *)
(***************************************************************************)
MaxRows == 2
MaxEvents == 4

\* Python's None where a boolean or a string may stand.
NoValue == "None"

SummaryTypes == <<"issue", "position", "argument", "proposal">>

\* what may be typed into a comment box
Comments == {"", "x"}

EmptyFeedback == <<>>

comment_key(summary_type) == summary_type \o "_comment"

\* dict.get(key, default)
dict_get(d, key, default) == IF key \in DOMAIN d THEN d[key] ELSE default

\* d[key] = value
dict_set(d, key, value) ==
  [k \in (DOMAIN d) \cup {key} |-> IF k = key THEN value ELSE d[k]]

\* record_feedback(row_index, summary_type, feedback_value, comment): the
\* content of the file after the call, for the content data before it.
record_feedback(data, row_index, summary_type, feedback_value, comment) ==
  LET with_row == IF row_index \in DOMAIN data THEN data
                  ELSE dict_set(data, row_index, EmptyFeedback)
      row1 == dict_set(with_row[row_index], summary_type,
                       IF feedback_value = "up" THEN "True" ELSE "False")
      row2 == IF comment # NoValue
              THEN dict_set(row1, comment_key(summary_type), comment)
              ELSE row1
  IN dict_set(with_row, row_index, row2)

get_feedback(data, row_index, summary_type) ==
  dict_get(dict_get(data, row_index, EmptyFeedback), summary_type, NoValue)

get_comment(data, row_index, summary_type) ==
  dict_get(dict_get(data, row_index, EmptyFeedback), comment_key(summary_type), "")

(***************************************************************************)
(* The files a user may put into the uploader, and json.load of them.      *)
(***************************************************************************)
NoFile == "none"

UploadFiles == {"broken.json", "annotations.json"}

\* json.load(uploaded_file): ok is FALSE when it raises.
json_load(file) ==
  IF file = "annotations.json"
  THEN [ok |-> TRUE,
        data |-> (0 :> ("issue" :> "False" @@ "issue_comment" :> "x"))]
  ELSE [ok |-> FALSE, data |-> EmptyFeedback]

(***************************************************************************)
(* Widget events.                                                          *)
(***************************************************************************)
Event(kind, type, value) == [kind |-> kind, type |-> type, value |-> value]

NoEvent == Event("none", "-", "-")

(***************************************************************************)
(* One run of main().                                                      *)
(***************************************************************************)
\* Mutant: the upload block without the test of upload_processed.
upload_block_every_run(file, processed, data) ==
  IF file # NoFile
  THEN LET loaded == json_load(file)
       IN IF loaded.ok THEN [data |-> loaded.data, processed |-> TRUE]
          ELSE [data |-> data, processed |-> processed]
  ELSE [data |-> data, processed |-> FALSE]

\* The upload block: the file content and upload_processed after it.
upload_block(file, processed, data) ==
  IF file # NoFile /\ ~processed
  THEN LET loaded == json_load(file)
       IN IF loaded.ok THEN [data |-> loaded.data, processed |-> TRUE]
          ELSE [data |-> data, processed |-> processed]
  ELSE IF file = NoFile THEN [data |-> data, processed |-> FALSE]
  ELSE [data |-> data, processed |-> processed]

\* Mutant: Next handled without the test against the number of rows.
nav_block_unbounded(index, prev_clicked, next_clicked, n) ==
  LET after_prev == IF prev_clicked /\ index > 0 THEN index - 1 ELSE index
  IN IF next_clicked THEN after_prev + 1 ELSE after_prev

\* The navigation block: current_index after it (both flags are then False).
nav_block(index, prev_clicked, next_clicked, n) ==
  LET after_prev == IF prev_clicked /\ index > 0 THEN index - 1 ELSE index
  IN IF next_clicked /\ after_prev < n - 1 THEN after_prev + 1 ELSE after_prev

\* df_filtered.iloc[index] raises IndexError
iloc_raises(index, n) == index >= n \/ index < -n

\* Mutant: whatever is not True counts as down.
comment_feedback_value_binary(current_feedback) ==
  IF current_feedback = "True" THEN "up" ELSE "down"

\* The value passed to record_feedback when a comment is saved.
comment_feedback_value(current_feedback) ==
  IF current_feedback = "True" THEN "up"
  ELSE IF current_feedback = "False" THEN "down"
  ELSE "up"

\* The four summary blocks, from block i on: the file content after them and
\* whether st.rerun() ended the run.
RECURSIVE summary_blocks(_, _, _, _)
summary_blocks(data, index, e, i) ==
  IF i > Len(SummaryTypes) THEN [data |-> data, rerun |-> FALSE]
  ELSE LET st == SummaryTypes[i]
           current_feedback == get_feedback(data, index, st)
           typed == IF e.kind = "comment" /\ e.type = st THEN e.value
                    ELSE get_comment(data, index, st)
       IN IF e.kind = "up" /\ e.type = st
          THEN [data |-> record_feedback(data, index, st, "up", NoValue), rerun |-> TRUE]
          ELSE IF e.kind = "down" /\ e.type = st
          THEN [data |-> record_feedback(data, index, st, "down", NoValue), rerun |-> TRUE]
          ELSE IF typed # get_comment(data, index, st)
          THEN summary_blocks(
                 record_feedback(data, index, st,
                                 comment_feedback_value(current_feedback), typed),
                 index, e, i + 1)
          ELSE summary_blocks(data, index, e, i + 1)

\* A run of the script started with the widget event e.
Run(e) ==
  LET file == IF e.kind = "upload" THEN e.value ELSE uploaded_file
      up == upload_block(file, upload_processed, feedback_file)
      index == nav_block(current_index, nav_prev_clicked, nav_next_clicked, num_rows)
      blocks == summary_blocks(up.data, index, e, 1)
  IN /\ uploaded_file' = file
     /\ upload_processed' = up.processed
     /\ current_index' = index
     /\ last_event' = e
     /\ events' = IF e.kind \in {"none", "slider"} THEN events ELSE events + 1
     /\ UNCHANGED num_rows
     /\ IF iloc_raises(index, num_rows)
        THEN /\ exception' = "IndexError"
             /\ nav_prev_clicked' = FALSE
             /\ nav_next_clicked' = FALSE
             /\ feedback_file' = up.data
             /\ rerun_pending' = FALSE
        ELSE /\ exception' = "none"
             /\ IF e.kind \in {"prev", "next"}
                THEN /\ nav_prev_clicked' = (e.kind = "prev")
                     /\ nav_next_clicked' = (e.kind = "next")
                     /\ feedback_file' = up.data
                     /\ rerun_pending' = TRUE
                ELSE /\ nav_prev_clicked' = FALSE
                     /\ nav_next_clicked' = FALSE
                     /\ feedback_file' = blocks.data
                     /\ rerun_pending' = blocks.rerun

\* The state after the first run of a session, with no feedback file yet and
\* at least one row with a speaker (with none, line 313 raises in every run).
Init ==
  /\ num_rows \in 1..MaxRows
  /\ current_index = 0
  /\ nav_prev_clicked = FALSE
  /\ nav_next_clicked = FALSE
  /\ upload_processed = FALSE
  /\ uploaded_file = NoFile
  /\ feedback_file = EmptyFeedback
  /\ rerun_pending = FALSE
  /\ exception = "none"
  /\ last_event = NoEvent
  /\ events = 0
  /\ text = None
  /\ speaker_name = None
  /\ threshold = 80
  /\ positions = <<>>
  /\ result = None
  /\ called = FALSE

\* the run that st.rerun() asked for
Rerun == rerun_pending /\ Run(NoEvent) /\ UNCHANGED hl_vars

\* the slider is moved: a run with no other widget changed
MoveSlider == Run(Event("slider", "-", "-")) /\ UNCHANGED hl_vars

ClickPrevious ==
  events < MaxEvents /\ Run(Event("prev", "-", "-")) /\ UNCHANGED hl_vars

ClickNext ==
  events < MaxEvents /\ Run(Event("next", "-", "-")) /\ UNCHANGED hl_vars

ClickThumbUp(st) ==
  events < MaxEvents /\ Run(Event("up", st, "-")) /\ UNCHANGED hl_vars

ClickThumbDown(st) ==
  events < MaxEvents /\ Run(Event("down", st, "-")) /\ UNCHANGED hl_vars

TypeComment(st, c) ==
  events < MaxEvents /\ Run(Event("comment", st, c)) /\ UNCHANGED hl_vars

\* a file is put into the uploader, or the uploader is emptied
ChangeUpload(file) ==
  /\ events < MaxEvents
  /\ file # uploaded_file
  /\ Run(Event("upload", "-", file))
  /\ UNCHANGED hl_vars

Next ==
  \/ Rerun
  \/ MoveSlider
  \/ ClickPrevious
  \/ ClickNext
  \/ \E i \in 1..Len(SummaryTypes) : ClickThumbUp(SummaryTypes[i])
  \/ \E i \in 1..Len(SummaryTypes) : ClickThumbDown(SummaryTypes[i])
  \/ \E i \in 1..Len(SummaryTypes), c \in Comments : TypeComment(SummaryTypes[i], c)
  \/ \E file \in UploadFiles \cup {NoFile} : ChangeUpload(file)

Spec == Init /\ [][Next]_vars

(***************************************************************************)
(* The highlighter called on every text and name within the bounds.        *)
(***************************************************************************)
InitHL ==
  /\ text \in Texts
  /\ speaker_name \in Names
  /\ threshold = 80
  /\ positions = <<>>
  /\ result = None
  /\ called = FALSE
  /\ num_rows = 1
  /\ current_index = 0
  /\ nav_prev_clicked = FALSE
  /\ nav_next_clicked = FALSE
  /\ upload_processed = FALSE
  /\ uploaded_file = NoFile
  /\ feedback_file = EmptyFeedback
  /\ rerun_pending = FALSE
  /\ exception = "none"
  /\ last_event = NoEvent
  /\ events = 0

\* highlight_speaker_name(text, speaker_name, t); a later call has the same
\* text and name and another threshold (the slider moved).
Highlight(t) ==
  /\ threshold' = t
  /\ positions' = highlight_call(text, speaker_name, t).positions
  /\ result' = highlight_speaker_name(text, speaker_name, t)
  /\ called' = TRUE
  /\ UNCHANGED <<text, speaker_name>>
  /\ UNCHANGED app_vars

NextHL == \E t \in Thresholds : Highlight(t)

SpecHL == InitHL /\ [][NextHL]_vars

(***************************************************************************)
(* Notions the properties are stated with.                                 *)
(***************************************************************************)
\* The Words of txt: the extents of its maximal runs of word characters.
WordSpans(txt) ==
  { sp \in (0..Len(txt)) \X (0..Len(txt)) :
      /\ sp[1] < sp[2]
      /\ \A k \in (sp[1] + 1)..sp[2] : IsWordChar(txt[k])
      /\ sp[1] = 0 \/ ~IsWordChar(txt[sp[1]])
      /\ sp[2] = Len(txt) \/ ~IsWordChar(txt[sp[2] + 1]) }

WordAt(txt, sp) == SubSeq(txt, sp[1] + 1, sp[2])

IsMarker(x) == x \in {MarkOpen, MarkClose}

\* The output without the inserted markers.
StripMarkers(out) == SelectSeq(out, LAMBDA x : ~IsMarker(x))

\* The spans the output marks, in the order of the output, as offsets into
\* the output without its markers; <<-1, -1>> is appended for a marker that
\* is out of place (a close without an open, an open inside an open).
RECURSIVE MarkedFrom(_, _, _, _)
MarkedFrom(out, i, off, open) ==
  IF i > Len(out) THEN (IF open = -1 THEN <<>> ELSE <<(<<-1, -1>>)>>)
  ELSE IF out[i] = MarkOpen
       THEN (IF open = -1 THEN <<>> ELSE <<(<<-1, -1>>)>>) \o MarkedFrom(out, i + 1, off, off)
  ELSE IF out[i] = MarkClose
       THEN (IF open = -1 THEN <<(<<-1, -1>>)>> ELSE <<(<<open, off>>)>>)
              \o MarkedFrom(out, i + 1, off, -1)
  ELSE MarkedFrom(out, i + 1, off + 1, open)

MarkedSpans(out) == MarkedFrom(out, 1, 0, -1)

Range(seq) == {seq[i] : i \in 1..Len(seq)}

StrictlyAscending(seq) == \A i \in 1..(Len(seq) - 1) : seq[i][1] < seq[i + 1][1]

\* The names a Word is compared with, as a set.
NamesOf(name) == {name} \cup Range(split(name))

EqualIgnoringCase(a, b) == lower(a) = lower(b)

Strings(x) == x # None

\* The reference set of claim C8.
ReferenceSpans(txt, name, t) ==
  { sp \in WordSpans(txt) :
      /\ lower(WordAt(txt, sp)) \notin STOPWORDS
      /\ \E n \in NamesOf(name) : ScoreReaches(lower(WordAt(txt, sp)), lower(n), t) }

(***************************************************************************)
(* C1.  When the call produced at least one highlight, the output without  *)
(* the inserted markers is the text, and the marked substrings are the     *)
(* highlighted spans, met in ascending order of their offsets.             *)
(***************************************************************************)
C1_RoundTripAndOrder ==
  (called /\ positions # <<>>) =>
     /\ StripMarkers(result) = text
     /\ StrictlyAscending(MarkedSpans(result))
     /\ Range(MarkedSpans(result)) = Range(positions)
     /\ Len(MarkedSpans(result)) = Cardinality(Range(positions))

C1_Witness ==
  /\ called
  /\ Len(positions) >= 2
  /\ Len(StripMarkers(result)) < Len(result)

(***************************************************************************)
(* C2.  An empty or absent text, or an empty or absent speaker name, makes *)
(* the call return its text argument unchanged, at every threshold.        *)
(***************************************************************************)
C2_IdentityOnEmpty ==
  (called /\ (falsy(text) \/ falsy(speaker_name))) => result = text

C2_Witness ==
  /\ called
  /\ speaker_name = <<>>
  /\ Strings(text) /\ WordSpans(text) # {}
  /\ threshold = 0
  /\ result = text

(***************************************************************************)
(* C3.  For the same text and name, a call at a lower threshold highlights *)
(* a superset of the spans a call at a higher threshold highlights.        *)
(***************************************************************************)
C3_ThresholdMonotone ==
  [][ /\ (called /\ threshold < threshold') => Range(positions') \subseteq Range(positions)
      /\ (called /\ threshold' < threshold) => Range(positions) \subseteq Range(positions')
    ]_vars

\* a call at threshold 100 that highlights nothing, for a text and a name
\* with a Word that scores at least 80: the calls at 80 and at 100 differ
C3_Witness ==
  /\ called
  /\ threshold = 100
  /\ positions = <<>>
  /\ Strings(text) /\ ~falsy(speaker_name)
  /\ ReferenceSpans(text, speaker_name, 80) # {}

(***************************************************************************)
(* C4.  A Word whose lowercase form is a stopword is never highlighted.    *)
(***************************************************************************)
C4_StopwordsNeverHighlighted ==
  (called /\ Strings(text)) =>
     \A sp \in WordSpans(text) :
        lower(WordAt(text, sp)) \in STOPWORDS =>
           sp \notin Range(positions) /\ sp \notin Range(MarkedSpans(result))

\* a Word that is a stopword once in lowercase and equals, ignoring case, a
\* name part, at a threshold that its score reaches
C4_Witness ==
  /\ called
  /\ threshold = 100
  /\ Strings(text) /\ Strings(speaker_name)
  /\ \E sp \in WordSpans(text) :
        /\ lower(WordAt(text, sp)) \in STOPWORDS
        /\ WordAt(text, sp) \notin STOPWORDS
        /\ \E n \in Range(split(speaker_name)) : EqualIgnoringCase(WordAt(text, sp), n)

(***************************************************************************)
(* C5.  A Word that is no stopword and equals, ignoring case, the full     *)
(* name or one of its parts is highlighted at every threshold up to 100.   *)
(***************************************************************************)
C5_ExactPartHighlighted ==
  (called /\ threshold <= 100 /\ Strings(text) /\ Strings(speaker_name)) =>
     \A sp \in WordSpans(text) :
        ( /\ lower(WordAt(text, sp)) \notin STOPWORDS
          /\ \E n \in NamesOf(speaker_name) : EqualIgnoringCase(WordAt(text, sp), n) )
        => sp \in Range(positions) /\ sp \in Range(MarkedSpans(result))

\* a two-part name of which one part is the only Word of the text, in
\* another case, at threshold 100
C5_Witness ==
  /\ called
  /\ threshold = 100
  /\ Strings(text) /\ Strings(speaker_name)
  /\ Len(split(speaker_name)) = 2
  /\ Cardinality(WordSpans(text)) = 1
  /\ \E sp \in Range(positions) :
        /\ WordAt(text, sp) \notin Range(split(speaker_name))
        /\ \E n \in Range(split(speaker_name)) : EqualIgnoringCase(WordAt(text, sp), n)

(***************************************************************************)
(* C6.  When no Word that is no stopword scores at least the threshold     *)
(* against the full name or a name part, and so at every threshold above   *)
(* 100, the text is returned as it is.                                     *)
(***************************************************************************)
C6_NoMatchVerbatim ==
  (called /\ Strings(text) /\ Strings(speaker_name)) =>
     /\ ReferenceSpans(text, speaker_name, threshold) = {} => result = text
     /\ threshold > 100 => result = text

\* a text with a Word that is no stopword, a name, a threshold within 0..100,
\* and nothing highlighted
C6_Witness ==
  /\ called
  /\ threshold = 80
  /\ Strings(text) /\ ~falsy(speaker_name)
  /\ \E sp \in WordSpans(text) : lower(WordAt(text, sp)) \notin STOPWORDS
  /\ result = text

(***************************************************************************)
(* C7.  The spans walked when the output is rebuilt lie within the text,   *)
(* are each the extent of one Word, are pairwise distinct, ascend strictly *)
(* by start and do not overlap; no marker lies within another.             *)
(***************************************************************************)
C7_SpansWellFormed ==
  (called /\ Strings(text)) =>
     /\ \A i \in 1..Len(positions) :
           /\ 0 <= positions[i][1]
           /\ positions[i][1] < positions[i][2]
           /\ positions[i][2] <= Len(text)
           /\ positions[i] \in WordSpans(text)
     /\ Cardinality(Range(positions)) = Len(positions)
     /\ StrictlyAscending(positions)
     /\ \A i \in 1..(Len(positions) - 1) : positions[i][2] <= positions[i + 1][1]
     /\ <<-1, -1>> \notin Range(MarkedSpans(result))

C7_Witness ==
  /\ called
  /\ threshold = 100
  /\ Len(positions) >= 2

(***************************************************************************)
(* C8 as stated.  The highlighted spans are the reference set, one span    *)
(* for a Word, for every text and every name.                              *)
(***************************************************************************)
C8_Original ==
  (called /\ Strings(text) /\ Strings(speaker_name)) =>
     /\ Range(positions) = ReferenceSpans(text, speaker_name, threshold)
     /\ Len(positions) = Cardinality(Range(positions))

(***************************************************************************)
(* C8.  For a text and a name that are not empty, the highlighted spans    *)
(* are the reference set, one span for a Word: stopping at the first name  *)
(* that reaches the threshold is the same as asking whether any does.      *)
(***************************************************************************)
C8_MatchesReference ==
  (called /\ ~falsy(text) /\ ~falsy(speaker_name)) =>
     /\ Range(positions) = ReferenceSpans(text, speaker_name, threshold)
     /\ Len(positions) = Cardinality(Range(positions))

\* a Word that the full name does not reach and a later name part does
C8_Witness ==
  /\ called
  /\ threshold = 100
  /\ ~falsy(text) /\ ~falsy(speaker_name)
  /\ \E sp \in Range(positions) :
        /\ ~ScoreReaches(lower(WordAt(text, sp)), lower(speaker_name), threshold)
        /\ Len(split(speaker_name)) >= 2
        /\ ~ScoreReaches(lower(WordAt(text, sp)), lower(split(speaker_name)[1]), threshold)

(***************************************************************************)
(* C9.  A run that saves a changed comment for a summary of the current    *)
(* row leaves its up/down value True if it was True, False if it was       *)
(* False, and makes it True if it was unset.                               *)
(***************************************************************************)
CommentSaved(st) ==
  /\ last_event'.kind = "comment"
  /\ last_event'.type = st
  /\ last_event'.value # get_comment(feedback_file, current_index', st)

C9_CommentKeepsOrApproves ==
  [][ \A i \in 1..Len(SummaryTypes) :
        CommentSaved(SummaryTypes[i]) =>
          LET st == SummaryTypes[i]
              before == get_feedback(feedback_file, current_index', st)
              after == get_feedback(feedback_file', current_index', st)
          IN /\ get_comment(feedback_file', current_index', st) = last_event'.value
             /\ before = "True" => after = "True"
             /\ before = "False" => after = "False"
             /\ before = NoValue => after = "True"
    ]_vars

\* the first event of a session is a comment typed for a summary that was
\* never rated: the file now holds an approval beside the comment
C9_Witness ==
  /\ events = 1
  /\ last_event.kind = "comment"
  /\ get_comment(feedback_file, current_index, last_event.type) = "x"
  /\ get_feedback(feedback_file, current_index, last_event.type) = "True"

(***************************************************************************)
(* C10.  After every run current_index is a valid row offset and the row   *)
(* read raised nothing; a navigation flag is True only from the click of   *)
(* the last run, so the handling block left both False; a run that finds   *)
(* nav_prev_clicked set moves the index down by one unless it is 0, one    *)
(* that finds nav_next_clicked set moves it up by one unless it is         *)
(* num_rows - 1, and no other run moves it.                                *)
(***************************************************************************)
NavHandled ==
  current_index' =
    IF nav_prev_clicked /\ ~nav_next_clicked
    THEN (IF current_index = 0 THEN current_index ELSE current_index - 1)
    ELSE IF nav_next_clicked /\ ~nav_prev_clicked
    THEN (IF current_index = num_rows - 1 THEN current_index ELSE current_index + 1)
    ELSE current_index

FlagsFromLastClick ==
  /\ nav_prev_clicked => (last_event.kind = "prev" /\ rerun_pending)
  /\ nav_next_clicked => (last_event.kind = "next" /\ rerun_pending)
  /\ ~(nav_prev_clicked /\ nav_next_clicked)

C10_IndexInRange ==
  /\ [](/\ exception = "none"
        /\ current_index \in 0..(num_rows - 1)
        /\ FlagsFromLastClick)
  /\ [][NavHandled]_vars

\* the one event so far was a Next click, and the run that followed it has
\* handled it: the index has moved to the last row and both flags are False
C10_Witness ==
  /\ num_rows = 2
  /\ current_index = 1
  /\ events = 1
  /\ ~nav_prev_clicked /\ ~nav_next_clicked
  /\ last_event = NoEvent
  /\ ~rerun_pending
  /\ feedback_file = EmptyFeedback
  /\ uploaded_file = NoFile

(***************************************************************************)
(* C11.  A run replaces the feedback file by an uploaded file only when    *)
(* upload_processed is False and the file parses, and it sets              *)
(* upload_processed; every other run, and so every run while the file      *)
(* stays in the uploader and every run whose file does not parse, keeps    *)
(* each entry of the feedback file but those its own event records;        *)
(* upload_processed is True only with a file in the uploader, goes back to *)
(* False only in a run that finds the uploader empty, and stays False when *)
(* the file does not parse.                                                *)
(***************************************************************************)
\* the run of this step loads the uploaded file into the feedback file
UploadApplied ==
  /\ ~upload_processed
  /\ upload_processed'
  /\ uploaded_file' # NoFile
  /\ json_load(uploaded_file').ok

\* the entry (row, field) is one that the event of this step's run records
RecordedByEvent(row, field) ==
  /\ row = current_index'
  /\ last_event'.kind \in {"up", "down", "comment"}
  /\ field \in {last_event'.type, comment_key(last_event'.type)}

\* every entry of the feedback file is still there with its value, but for
\* the entries the event of this step's run records
EntriesKept ==
  \A row \in DOMAIN feedback_file :
     /\ row \in DOMAIN feedback_file'
     /\ \A field \in DOMAIN feedback_file[row] :
           /\ field \in DOMAIN feedback_file'[row]
           /\ \/ feedback_file'[row][field] = feedback_file[row][field]
              \/ RecordedByEvent(row, field)

UploadStep ==
  /\ UploadApplied \/ EntriesKept
  /\ upload_processed => ~UploadApplied
  /\ (upload_processed /\ ~upload_processed') => uploaded_file' = NoFile
  /\ (~upload_processed /\ uploaded_file' # NoFile /\ ~json_load(uploaded_file').ok)
        => (~upload_processed' /\ EntriesKept)
  /\ (~upload_processed /\ upload_processed') => UploadApplied

C11_UploadAppliedOnce ==
  /\ [](upload_processed => uploaded_file # NoFile)
  /\ [][UploadStep]_vars

\* the uploaded file was loaded, a thumbs-up then replaced the value it held
\* for the issue of row 0, and the run after that click left it in place
\* with the file still in the uploader
C11_Witness ==
  /\ uploaded_file = "annotations.json"
  /\ upload_processed
  /\ current_index = 0
  /\ get_feedback(json_load(uploaded_file).data, 0, "issue") = "False"
  /\ get_feedback(feedback_file, 0, "issue") = "True"
  /\ get_comment(feedback_file, 0, "issue") = "x"
  /\ last_event = NoEvent
  /\ ~rerun_pending

====
